---- MODULE Spec2Model ----
(***************************************************************************)
(* Model of bob/db/ijba/scripts/collect_results.py: main globs the root   *)
(* directories, compute_comparison / compute_search run search_results    *)
(* once per criterion/threshold over them and render a text table.        *)
(*                                                                         *)
(* Numbers.  Metric values are fixed-point integers counting 1e-7, so     *)
(* 0.92 is 9200000 and One is 1.0.  round(x, 5) is Round5, the nearest     *)
(* multiple of 1e-5.  A displayed cell round(x,5)*100 is kept in the same  *)
(* unit, so the cell "92.0" is 920000000.                                  *)
(***************************************************************************)
EXTENDS Integers, Sequences, FiniteSets, TLC

VARIABLES
  fs,           \* the directory tree below the working directory
  pc,           \* position of main: start, comparison, fnmr, plot_comparison,
                \*   search, dir, plot_search, done, aborted
  args,         \* the argparse namespace, shared and mutated by every pass
  directories,  \* glob.glob(args.directory), computed once in main
  heap,         \* the Result objects created so far, addressed by position
  cmc_r1,       \* compute_comparison: object ids returned by the RR pass
  fnmr,         \* compute_comparison: one list of object ids per FAR pass
  dira,         \* compute_search: one list of object ids per DIR pass
  calls,        \* log of the search_results calls: configuration and result
  stdout,       \* the lines printed, <<>> while nothing was printed
  outfile,      \* the lines of the file named by --output, <<>> while unwritten
  fschanges     \* number of filesystem changes made by the environment

vars == <<fs, pc, args, directories, heap, cmc_r1, fnmr, dira, calls, stdout,
          outfile, fschanges>>

-----------------------------------------------------------------------------
(* Bounds of the model *)

\* how many times the environment changes the tree during one run
MaxFsChanges == 1

\* how many leaf sub-directories a container directory holds at most
MaxSub == 1

-----------------------------------------------------------------------------
(* Values *)

\* Python's None (an attribute never populated); metric values are >= 0
None == 0 - 1

One == 10^7

\* far_thresholds = [0.1, 0.01, 0.001]
far_thresholds == <<10^6, 10^5, 10^4>>

\* round(v, 5): nearest multiple of 1e-5, exact halves to the even neighbour
Round5(v) ==
  LET q == v \div 100
      r == v % 100
  IN  IF r > 50 THEN (q + 1) * 100
      ELSE IF r < 50 THEN q * 100
      ELSE IF q % 2 = 0 THEN q * 100 ELSE (q + 1) * 100

\* variant of Cell: scale first, then round
Cell_ScaleFirst(v) == Round5(v * 100)

\* str(round(x.nonorm_dev, 5) * 100): round first, then scale
Cell(v) == Round5(v) * 100

RECURSIVE Concat(_)
Concat(ss) == IF ss = <<>> THEN <<>> ELSE Head(ss) \o Concat(Tail(ss))

RECURSIVE MinOf(_)
MinOf(ns) ==
  IF Len(ns) = 1 THEN ns[1]
  ELSE LET m == MinOf(Tail(ns)) IN IF ns[1] < m THEN ns[1] ELSE m

-----------------------------------------------------------------------------
(* The filesystem and the external library (bob.bio.base) *)

\* names of the directories directly below the working directory, in the
\* order os.listdir reports them
TopNames == <<"a", "b">>

SubNames == <<"s1", "s2", "s3">>

\* what the score files of a leaf directory contain
Profiles == {"p1", "p2", "nodev", "nozt"}

Absent == [kind |-> "absent", prof |-> "-", sub |-> <<>>]
Leaf(p) == [kind |-> "leaf", prof |-> p, sub |-> <<>>]
Dir(ps) == [kind |-> "dir", prof |-> "-", sub |-> ps]

\* the leaves below a container directory have complete score files
SubProfiles == {"p1", "p2"}

SubLists == UNION {[1..n -> SubProfiles] : n \in 0..MaxSub}

Nodes == {Absent} \cup {Leaf(p) : p \in Profiles} \cup {Dir(ps) : ps \in SubLists}

\* os.path.normpath: the directory a path names
RECURSIVE Normpath(_)
Normpath(path) ==
  IF path = <<>> THEN <<>>
  ELSE LET init == Normpath(SubSeq(path, 1, Len(path) - 1))
           last == path[Len(path)]
       IN  IF last = "." THEN init
           ELSE IF last = ".." THEN
                  (IF init = <<>> THEN <<>> ELSE SubSeq(init, 1, Len(init) - 1))
           ELSE Append(init, last)

SubIndex(name) == CHOOSE i \in 1..Len(SubNames) : SubNames[i] = name

\* does the directory `phys` (a normalised path) exist in tree f
IsDir(f, phys) ==
  \/ phys = <<>>
  \/ /\ Len(phys) = 1
     /\ \E i \in 1..Len(TopNames) : TopNames[i] = phys[1]
     /\ f[phys[1]].kind # "absent"
  \/ /\ Len(phys) = 2
     /\ \E i \in 1..Len(TopNames) : TopNames[i] = phys[1]
     /\ f[phys[1]].kind = "dir"
     /\ \E i \in 1..Len(f[phys[1]].sub) : SubNames[i] = phys[2]

\* a path can be listed iff every prefix of it names an existing directory
Exists(f, path) ==
  \A n \in 1..Len(path) : IsDir(f, Normpath(SubSeq(path, 1, n)))

\* the score profile of the leaf directory `phys`, "-" when it is no leaf
ProfileAt(f, phys) ==
  IF Len(phys) = 1 THEN f[phys[1]].prof
  ELSE IF Len(phys) = 2 THEN f[phys[1]].sub[SubIndex(phys[2])]
  ELSE "-"

\* os.listdir restricted to sub-directories other than the score directories
Listdir(f, phys) ==
  IF phys = <<>> THEN SelectSeq(TopNames, LAMBDA n : f[n].kind # "absent")
  ELSE IF Len(phys) = 1 /\ f[phys[1]].kind = "dir"
       THEN SubSeq(SubNames, 1, Len(f[phys[1]].sub))
  ELSE <<>>

\* the external metric on the dev/nonorm score file of a leaf, None when the
\* file is missing
NonormDev(p, a) ==
  IF p = "nodev" THEN None
  ELSE IF a.criterion = "RR" THEN (IF p = "p2" THEN 1234568 ELSE 9200000)
  ELSE IF a.criterion = "FAR" THEN
         (IF a.far_threshold = far_thresholds[1]
            THEN (IF p = "p2" THEN 499996 ELSE 2000000)
          ELSE IF a.far_threshold = far_thresholds[2]
            THEN (IF p = "p2" THEN 3333333 ELSE 5000000)
          ELSE (IF p = "p2" THEN 9876543 ELSE 8000000))
  ELSE   (IF a.far_threshold = far_thresholds[1]
            THEN (IF p = "p2" THEN 8765432 ELSE 9000000)
          ELSE IF a.far_threshold = far_thresholds[2]
            THEN (IF p = "p2" THEN 6543219 ELSE 7000000)
          ELSE (IF p = "p2" THEN 1111111 ELSE 4000000))

\* the external metric on the dev/ztnorm score file
ZtnormDev(p, a) ==
  IF p = "nozt" THEN None
  ELSE IF p = "nodev" THEN 7777777
  ELSE One - NonormDev(p, a) \div 2

\* add_results: the Result object built for one leaf directory
AddResults(a, path, f) ==
  LET p == ProfileAt(f, Normpath(path))
  IN  [directory |-> path, nonorm_dev |-> NonormDev(p, a), ztnorm_dev |-> ZtnormDev(p, a)]

\* Result.valid(): every score file was found and gave a number
valid(r) == r.nonorm_dev # None /\ r.ztnorm_dev # None

\* recurse(args, path): a directory holding the score directories is a leaf,
\* any other directory is descended into
RECURSIVE recurse(_, _, _)
recurse(a, path, f) ==
  LET phys == Normpath(path)
  IN  IF ProfileAt(f, phys) # "-" THEN <<AddResults(a, path, f)>>
      ELSE LET es == Listdir(f, phys)
           IN  Concat([i \in 1..Len(es) |-> recurse(a, Append(path, es[i]), f)])

\* glob.glob(args.directory) for the patterns of the model
Patterns == {"*", "a", "*/..", ".", "zzz*"}

Glob(pattern, f) ==
  LET tops == Listdir(f, <<>>)
  IN  IF pattern = "*" THEN [i \in 1..Len(tops) |-> <<tops[i]>>]
      ELSE IF pattern = "*/.." THEN [i \in 1..Len(tops) |-> <<tops[i], "..">>]
      ELSE IF pattern = "a" THEN (IF f["a"].kind # "absent" THEN << <<"a">> >> ELSE <<>>)
      ELSE IF pattern = "." THEN << <<".">> >>
      ELSE <<>>

-----------------------------------------------------------------------------
(* collect_results.py *)

\* search_results raises when os.listdir fails on a root that is gone
Raises(dirs, f) == \E i \in 1..Len(dirs) : ~Exists(f, dirs[i])

RECURSIVE SortedByValue(_)
SortedByValue(rs) ==
  IF rs = <<>> THEN <<>>
  ELSE LET rest == SortedByValue(Tail(rs))
           v    == Head(rs).nonorm_dev
       IN  SelectSeq(rest, LAMBDA r : r.nonorm_dev >= v) \o <<Head(rs)>>
             \o SelectSeq(rest, LAMBDA r : r.nonorm_dev < v)

\* variant of search_results: returns the results sorted, best value first
search_results_Sorted(a, dirs, f) ==
  SortedByValue(Concat([i \in 1..Len(dirs) |-> recurse(a, dirs[i], f)]))

\* search_results(args, directories): results += recurse(args, directory)
search_results(a, dirs, f) ==
  Concat([i \in 1..Len(dirs) |-> recurse(a, dirs[i], f)])

\* variant of RRArgs: the rank is not set
RRArgs_NoRank(a) == [a EXCEPT !.criterion = "RR"]

\* args_augmented = args; args_augmented.rank = 1; args_augmented.criterion = "RR"
RRArgs(a) == [a EXCEPT !.rank = 1, !.criterion = "RR"]

\* args_augmented.criterion = "FAR"; args_augmented.far_threshold = f
FarArgs(a, f) == [a EXCEPT !.criterion = "FAR", !.far_threshold = f]

\* args_augmented = args; args_augmented.rank = 1; args_augmented.criterion = "DIR"
SearchArgs(a) == [a EXCEPT !.rank = 1, !.criterion = "DIR"]

\* variant of DirArgs: the threshold is not set before the call
DirArgs_NoThreshold(a, f) == [a EXCEPT !.criterion = "DIR"]

\* args_augmented.criterion = "DIR"; args_augmented.far_threshold = f
DirArgs(a, f) == [a EXCEPT !.criterion = "DIR", !.far_threshold = f]

\* the lists hold references: n fresh objects placed after `base` heap cells
Ids(base, n) == [i \in 1..n |-> base + i]

\* what the log keeps of one search_results call
LogEntry(a, dirs, ids, res, raised) ==
  [criterion |-> a.criterion, rank |-> a.rank, far_threshold |-> a.far_threshold,
   directories |-> dirs, returned |-> ids,
   raw |-> [i \in 1..Len(res) |-> res[i].nonorm_dev], raised |-> raised]

\* position of the first object of `ids` whose nonorm_dev is None, Len+1 if none
FirstNone(h, ids) ==
  IF \E i \in 1..Len(ids) : h[ids[i]].nonorm_dev = None
  THEN CHOOSE i \in 1..Len(ids) :
         /\ h[ids[i]].nonorm_dev = None
         /\ \A j \in 1..(i - 1) : h[ids[j]].nonorm_dev # None
  ELSE Len(ids) + 1

\* variant of Complement: the passes share their entries, so the loop reaches
\* every object created so far
Complement_Shared(h, ids) ==
  [i \in 1..Len(h) |->
     IF h[i].nonorm_dev # None THEN [h[i] EXCEPT !.nonorm_dev = One - @] ELSE h[i]]

\* for rr in frr: rr.nonorm_dev = 1.-rr.nonorm_dev   (stops at the TypeError
\* raised by 1.-None)
Complement(h, ids) ==
  LET stop == FirstNone(h, ids)
  IN  [i \in 1..Len(h) |->
         IF \E j \in 1..(stop - 1) : ids[j] = i
         THEN [h[i] EXCEPT !.nonorm_dev = One - @]
         ELSE h[i]]

Line(kind, text, cells, split) ==
  [kind |-> kind, text |-> text, cells |-> cells, split |-> split]

Border == Line("border", <<>>, <<>>, None)

ComparisonHeader ==
  << Border,
     Line("titles", <<"CMC% (R=1)", "TPIR% (FAR=0.1)", "TPIR% (FAR=0.01)",
                      "TPIR% (FAR=0.001)", "split">>, <<>>, None),
     Line("rule", <<>>, <<>>, None) >>

SearchHeader ==
  << Border,
     Line("titles", <<"DIR% (FAR=0.1)", "DIR% (FAR=0.01)", "DIR% (FAR=0.001)",
                      "split">>, <<>>, None),
     Line("rule", <<>>, <<>>, None) >>

\* the number of tuples zip(...) yields
ZipLen(lists, n) == MinOf([i \in 1..(Len(lists) + 1) |->
                             IF i <= Len(lists) THEN Len(lists[i]) ELSE n])

\* round(None, 5) raises TypeError while row i is formatted
PlotRaises(h, lists, n) ==
  \E i \in 1..ZipLen(lists, n) : \E c \in 1..Len(lists) :
     h[lists[c][i]].nonorm_dev = None

\* variant of Row: splits are numbered from 1
Row_FromOne(h, lists, i) ==
  << Line("row", <<>>, [c \in 1..Len(lists) |-> Cell(h[lists[c][i]].nonorm_dev)], i),
     Border >>

\* one data row and the border below it
Row(h, lists, i) ==
  << Line("row", <<>>, [c \in 1..Len(lists) |-> Cell(h[lists[c][i]].nonorm_dev)], i - 1),
     Border >>

Rows(h, lists, n) ==
  Concat([i \in 1..ZipLen(lists, n) |-> Row(h, lists, i)])

\* variant of plot_comparison_table: the table is closed by one more border
plot_comparison_table_Closed(h, c, f) ==
  ComparisonHeader \o Rows(h, <<c, f[1], f[2], f[3]>>, Len(c)) \o <<Border>>

\* plot_comparison_table(cmc_r1, fnmr)
plot_comparison_table(h, c, f) ==
  ComparisonHeader \o Rows(h, <<c, f[1], f[2], f[3]>>, Len(c))

\* plot_search_table(dira)
plot_search_table(h, d) ==
  SearchHeader \o Rows(h, <<d[1], d[2], d[3]>>, Len(d[1]))

-----------------------------------------------------------------------------
(* The state machine *)

Init ==
  /\ fs \in [{TopNames[i] : i \in 1..Len(TopNames)} -> Nodes]
  /\ pc = "start"
  /\ args = [directory |-> ".", output |-> "", report_type |-> "comparison",
             dev |-> "", eval |-> "", nonorm |-> "", ztnorm |-> "",
             rank |-> None, criterion |-> "", far_threshold |-> None]
  /\ directories = <<>>
  /\ heap = <<>>
  /\ cmc_r1 = <<>>
  /\ fnmr = <<>>
  /\ dira = <<>>
  /\ calls = <<>>
  /\ stdout = <<>>
  /\ outfile = <<>>
  /\ fschanges = 0

\* main, up to the choice of the report: parse the options, glob the roots,
\* inject the file names
Main(pattern, rtype, out) ==
  /\ pc = "start"
  /\ args' = [args EXCEPT !.directory = pattern, !.output = out,
                          !.report_type = rtype, !.dev = "scores-dev",
                          !.eval = "scores-eval", !.nonorm = "nonorm",
                          !.ztnorm = "ztnorm"]
  /\ directories' = Glob(pattern, fs)
  /\ pc' = IF rtype = "comparison" THEN "comparison" ELSE "search"
  /\ UNCHANGED <<fs, heap, cmc_r1, fnmr, dira, calls, stdout, outfile, fschanges>>

\* compute_comparison: rank = 1, criterion = "RR", cmc_r1 = search_results(...)
ComparisonRR ==
  /\ pc = "comparison"
  /\ LET a == RRArgs(args)
     IN  /\ args' = a
         /\ IF Raises(directories, fs)
            THEN /\ calls' = Append(calls, LogEntry(a, directories, <<>>, <<>>, TRUE))
                 /\ pc' = "aborted"
                 /\ UNCHANGED <<heap, cmc_r1>>
            ELSE LET res == search_results(a, directories, fs)
                     ids == Ids(Len(heap), Len(res))
                 IN  /\ heap' = heap \o res
                     /\ cmc_r1' = ids
                     /\ calls' = Append(calls, LogEntry(a, directories, ids, res, FALSE))
                     /\ pc' = "fnmr"
  /\ UNCHANGED <<fs, directories, fnmr, dira, stdout, outfile, fschanges>>

\* compute_fnmr: one turn of the loop over far_thresholds
FnmrPass ==
  /\ pc = "fnmr"
  /\ LET k == Len(fnmr) + 1
         a == FarArgs(args, far_thresholds[k])
     IN  /\ args' = a
         /\ IF Raises(directories, fs)
            THEN /\ calls' = Append(calls, LogEntry(a, directories, <<>>, <<>>, TRUE))
                 /\ pc' = "aborted"
                 /\ UNCHANGED <<heap, fnmr>>
            ELSE LET res == search_results(a, directories, fs)
                     ids == Ids(Len(heap), Len(res))
                     h   == heap \o res
                 IN  /\ heap' = Complement(h, ids)
                     /\ calls' = Append(calls, LogEntry(a, directories, ids, res, FALSE))
                     /\ IF FirstNone(h, ids) <= Len(ids)
                        THEN /\ pc' = "aborted"
                             /\ UNCHANGED fnmr
                        ELSE /\ fnmr' = Append(fnmr, ids)
                             /\ pc' = IF k = Len(far_thresholds)
                                      THEN "plot_comparison" ELSE "fnmr"
  /\ UNCHANGED <<fs, directories, cmc_r1, dira, stdout, outfile, fschanges>>

\* print(plot_comparison_table(cmc_r1, fnmr))
PlotComparison ==
  /\ pc = "plot_comparison"
  /\ IF PlotRaises(heap, <<cmc_r1, fnmr[1], fnmr[2], fnmr[3]>>, Len(cmc_r1))
     THEN /\ pc' = "aborted"
          /\ UNCHANGED stdout
     ELSE /\ stdout' = plot_comparison_table(heap, cmc_r1, fnmr)
          /\ pc' = "done"
  /\ UNCHANGED <<fs, args, directories, heap, cmc_r1, fnmr, dira, calls, outfile,
                 fschanges>>

\* compute_search: rank = 1, criterion = "DIR"
SearchBegin ==
  /\ pc = "search"
  /\ args' = SearchArgs(args)
  /\ pc' = "dir"
  /\ UNCHANGED <<fs, directories, heap, cmc_r1, fnmr, dira, calls, stdout, outfile,
                 fschanges>>

\* compute_dir: one turn of the loop over far_thresholds
DirPass ==
  /\ pc = "dir"
  /\ LET k == Len(dira) + 1
         a == DirArgs(args, far_thresholds[k])
     IN  /\ args' = a
         /\ IF Raises(directories, fs)
            THEN /\ calls' = Append(calls, LogEntry(a, directories, <<>>, <<>>, TRUE))
                 /\ pc' = "aborted"
                 /\ UNCHANGED <<heap, dira>>
            ELSE LET res == search_results(a, directories, fs)
                     ids == Ids(Len(heap), Len(res))
                 IN  /\ heap' = heap \o res
                     /\ dira' = Append(dira, ids)
                     /\ calls' = Append(calls, LogEntry(a, directories, ids, res, FALSE))
                     /\ pc' = IF k = Len(far_thresholds) THEN "plot_search" ELSE "dir"
  /\ UNCHANGED <<fs, directories, cmc_r1, fnmr, stdout, outfile, fschanges>>

\* print(plot_search_table(dira))
PlotSearch ==
  /\ pc = "plot_search"
  /\ IF PlotRaises(heap, <<dira[1], dira[2], dira[3]>>, Len(dira[1]))
     THEN /\ pc' = "aborted"
          /\ UNCHANGED stdout
     ELSE /\ stdout' = plot_search_table(heap, dira)
          /\ pc' = "done"
  /\ UNCHANGED <<fs, args, directories, heap, cmc_r1, fnmr, dira, calls, outfile,
                 fschanges>>

\* the environment: another process adds, removes or replaces a directory
\* below the working directory between two passes of the script
ChangeNodes == {Absent, Leaf("p1")}

FsChange(n, node) ==
  /\ pc \in {"fnmr", "dir"}
  /\ calls # <<>>
  /\ fschanges < MaxFsChanges
  /\ node # fs[n]
  /\ fs' = [fs EXCEPT ![n] = node]
  /\ fschanges' = fschanges + 1
  /\ UNCHANGED <<pc, args, directories, heap, cmc_r1, fnmr, dira, calls, stdout,
                 outfile>>

Next ==
  \/ \E pattern \in Patterns, rtype \in {"comparison", "search"},
        out \in {"", "out.txt"} : Main(pattern, rtype, out)
  \/ ComparisonRR
  \/ FnmrPass
  \/ PlotComparison
  \/ SearchBegin
  \/ DirPass
  \/ PlotSearch
  \/ \E i \in 1..Len(TopNames), node \in ChangeNodes : FsChange(TopNames[i], node)

Spec == Init /\ [][Next]_vars

-----------------------------------------------------------------------------
(* Properties *)

\* the per-pass lists the table is built from, once every pass has run
Lists ==
  IF args.report_type = "comparison"
  THEN <<cmc_r1, fnmr[1], fnmr[2], fnmr[3]>>
  ELSE <<dira[1], dira[2], dira[3]>>

Lens == [c \in 1..Len(Lists) |-> Len(Lists[c])]

\* the data rows of the printed report
DataRows == SelectSeq(stdout, LAMBDA l : l.kind = "row")

NoCallRaised == \A i \in 1..Len(calls) : ~calls[i].raised

\* the positions of the zip at which every pass has a valid entry
ValidPositions ==
  {i \in 1..MinOf(Lens) : \A c \in 1..Len(Lists) : valid(heap[Lists[c][i]])}

\* C1: a run whose directories could all be read ends with a printed table, and
\* the table has a row for exactly the positions whose entries are all valid():
\* entries with valid() false are left out and do not abort the run.
C1_InvalidEntriesExcluded ==
  (pc \in {"done", "aborted"} /\ NoCallRaised) =>
     /\ pc = "done"
     /\ Len(DataRows) = Cardinality(ValidPositions)

\* C2: when --output names a file, a finished run has written to that file the
\* report it printed to stdout.
C2_OutputFileWritten ==
  (pc = "done" /\ args.output # "") => outfile = stdout

\* the configuration search_results saw at call i
Config(i) == <<calls[i].criterion, calls[i].rank, calls[i].far_threshold>>

\* the cells of data row i of the printed report
RowCells(i) == DataRows[i].cells

\* C3: compute_comparison calls search_results four times over the same
\* directories: first with criterion RR and rank 1, then with criterion FAR,
\* rank 1 and far_threshold 0.1, 0.01, 0.001 in this order; the four returned
\* lists are the columns CMC, TPIR(0.1), TPIR(0.01), TPIR(0.001) of every row.
C3_ComparisonPasses ==
  args.report_type = "comparison" =>
    /\ Len(calls) <= 4
    /\ \A i \in 1..Len(calls) :
         /\ calls[i].directories = directories
         /\ i = 1 => calls[i].criterion = "RR" /\ calls[i].rank = 1
         /\ i = 2 => Config(i) = <<"FAR", 1, 1000000>>
         /\ i = 3 => Config(i) = <<"FAR", 1, 100000>>
         /\ i = 4 => Config(i) = <<"FAR", 1, 10000>>
    /\ pc \in {"plot_comparison", "done"} =>
         /\ Len(calls) = 4
         /\ cmc_r1 = calls[1].returned
         /\ \A k \in 1..3 : fnmr[k] = calls[k + 1].returned
    /\ pc = "done" =>
         \A i \in 1..Len(DataRows) :
            RowCells(i) = [c \in 1..4 |-> Cell(heap[calls[c].returned[i]].nonorm_dev)]

C3_Witness ==
  /\ args.report_type = "comparison"
  /\ pc = "done"
  /\ Len(DataRows) >= 2

\* C4: compute_search calls search_results three times over the same
\* directories, each time with criterion DIR and rank 1 and with far_threshold
\* 0.1, then 0.01, then 0.001 (so never with far_threshold unset); the three
\* returned lists are the columns DIR(0.1), DIR(0.01), DIR(0.001) of every row.
C4_SearchPasses ==
  args.report_type = "search" =>
    /\ Len(calls) <= 3
    /\ \A i \in 1..Len(calls) :
         /\ calls[i].directories = directories
         /\ calls[i].far_threshold # None
         /\ i = 1 => Config(i) = <<"DIR", 1, 1000000>>
         /\ i = 2 => Config(i) = <<"DIR", 1, 100000>>
         /\ i = 3 => Config(i) = <<"DIR", 1, 10000>>
    /\ pc \in {"plot_search", "done"} =>
         /\ Len(calls) = 3
         /\ \A k \in 1..3 : dira[k] = calls[k].returned
    /\ pc = "done" =>
         \A i \in 1..Len(DataRows) :
            RowCells(i) = [c \in 1..3 |-> Cell(heap[calls[c].returned[i]].nonorm_dev)]

C4_Witness ==
  /\ args.report_type = "search"
  /\ pc = "done"
  /\ Len(DataRows) >= 2

\* C5: a printed report has as many data rows as the shortest per-pass list has
\* entries; row i is labelled split i-1 (counting rows from 1) and each of its
\* cells comes from position i of the list of its column.
C5_RowsAreZip ==
  pc = "done" =>
    /\ Len(DataRows) = MinOf(Lens)
    /\ \A i \in 1..Len(DataRows) :
         /\ stdout[3 + 2 * i - 1] = DataRows[i]
         /\ DataRows[i].split = i - 1
         /\ Len(RowCells(i)) = Len(Lists)
         /\ \A c \in 1..Len(Lists) :
              RowCells(i)[c] = Round5(heap[Lists[c][i]].nonorm_dev) * 100

\* lists of different lengths, the shortest of them not empty
C5_Witness ==
  /\ pc = "done"
  /\ MinOf(Lens) >= 1
  /\ \E c \in 1..Len(Lists) : Lens[c] > MinOf(Lens)

\* C6: in the comparison report the CMC cell of row i is round(c, 5) * 100 for
\* the raw nonorm_dev c the RR pass returned at position i, and the k-th TPIR
\* cell is round(1 - v, 5) * 100 for the raw nonorm_dev v the k-th FAR pass
\* returned there; one leaf with RR 0.92 and false-reject rates 0.20, 0.50,
\* 0.80 gives exactly one data row 92.0, 80.0, 50.0, 20.0.
C6_ComparisonCells ==
  (args.report_type = "comparison" /\ pc = "done") =>
    /\ \A i \in 1..Len(DataRows) :
         /\ RowCells(i)[1] = Round5(calls[1].raw[i]) * 100
         /\ \A k \in 1..3 : RowCells(i)[k + 1] = Round5(One - calls[k + 1].raw[i]) * 100
    /\ ( /\ calls[1].raw = <<9200000>>
         /\ calls[2].raw = <<2000000>>
         /\ calls[3].raw = <<5000000>>
         /\ calls[4].raw = <<8000000>> )
       => /\ Len(DataRows) = 1
          /\ RowCells(1) = <<920000000, 800000000, 500000000, 200000000>>

\* a row whose raw values have digits beyond the fifth decimal
C6_Witness ==
  /\ args.report_type = "comparison"
  /\ pc = "done"
  /\ \E i \in 1..Len(DataRows) :
        /\ calls[1].raw[i] = 1234568
        /\ calls[2].raw[i] = 499996
        /\ RowCells(i)[1] = 123460000
        /\ RowCells(i)[2] = 950000000

\* C7: when the pattern matched no directory the run does not abort, and the
\* report it prints is the three header lines of its report type and nothing
\* else.
C7_EmptyDiscovery ==
  (pc # "start" /\ directories = <<>>) =>
    /\ pc # "aborted"
    /\ pc = "done" =>
         /\ Len(stdout) = 3
         /\ stdout = (IF args.report_type = "comparison"
                      THEN ComparisonHeader ELSE SearchHeader)

C7_Witness ==
  /\ pc = "done"
  /\ args.directory = "zzz*"
  /\ directories = <<>>
  /\ args.report_type = "comparison"
  /\ Len(stdout) = 3

\* every object id held by the lists of compute_comparison
ComparisonIds == cmc_r1 \o Concat(fnmr)

\* C8: the passes of compute_comparison return lists of distinct objects; the
\* objects of the RR list keep the value the RR pass computed, and the objects
\* of the k-th FAR list hold one minus the value their own pass computed (the
\* complement applied once), whatever later passes do.
C8_IndependentLists ==
  args.report_type = "comparison" =>
    /\ \A i, j \in 1..Len(ComparisonIds) :
         i # j => ComparisonIds[i] # ComparisonIds[j]
    /\ \A i \in 1..Len(cmc_r1) : heap[cmc_r1[i]].nonorm_dev = calls[1].raw[i]
    /\ \A k \in 1..Len(fnmr) : \A i \in 1..Len(fnmr[k]) :
         /\ calls[k + 1].returned = fnmr[k]
         /\ heap[fnmr[k][i]].nonorm_dev = One - calls[k + 1].raw[i]

C8_Witness ==
  /\ args.report_type = "comparison"
  /\ pc = "done"
  /\ Len(cmc_r1) >= 1
  /\ \A k \in 1..3 : Len(fnmr[k]) >= 1
  /\ heap[cmc_r1[1]].nonorm_dev = 9200000
  /\ heap[fnmr[1][1]].nonorm_dev = 8000000
  /\ heap[fnmr[3][1]].nonorm_dev = 2000000

\* the directories of the entries call i returned, in order
ReturnedDirs(i) ==
  [k \in 1..Len(calls[i].returned) |-> heap[calls[i].returned[k]].directory]

\* C9: every search_results call gets the root directories main globbed, which
\* no pass changes; while the filesystem is unchanged all passes return entries
\* for the same directories in the same order.
C9_SameDiscoveryOrder ==
  /\ \A i \in 1..Len(calls) : calls[i].directories = directories
  /\ fschanges = 0 =>
       \A i, j \in 1..Len(calls) :
          (~calls[i].raised /\ ~calls[j].raised) => ReturnedDirs(i) = ReturnedDirs(j)

C9_Witness ==
  /\ pc = "done"
  /\ fschanges = 0
  /\ Len(calls) >= 3
  /\ Len(ReturnedDirs(1)) >= 2
  /\ ReturnedDirs(3) = ReturnedDirs(1)

\* C10: the list one search_results call returns names every leaf directory at
\* most once.
C10_LeafAtMostOnce ==
  \A c \in 1..Len(calls) :
     \A i, j \in 1..Len(ReturnedDirs(c)) :
        i # j => Normpath(ReturnedDirs(c)[i]) # Normpath(ReturnedDirs(c)[j])

====
